---------------------------- MODULE Spec2Model ----------------------------
(***************************************************************************)
(* Model of the planning core of smart-task-planner (src/llm_handler.py):  *)
(* LLMTaskPlanner.query_hf_api, generate_task_plan and                      *)
(* generate_fallback_tasks, with the persistence call of src/database.py.   *)
(*                                                                         *)
(* Text is a sequence of lexical tokens.  "fence" is the three-backtick    *)
(* marker, "json" the four letters json, "w" a run of prose characters,    *)
(* "s" a run of whitespace; the other tokens are JSON5 lexemes.  A key     *)
(* token such as "tasks:" stands for the quoted key and its colon; the     *)
(* commas between members and elements are not written.                    *)
(*                                                                         *)
(* A calendar date string "YYYY-MM-DD" is the number of its day; an        *)
(* instant (datetime) is a number of ticks, TicksPerDay ticks to the day,  *)
(* so that strptime, strftime and timedelta.days are real conversions.     *)
(***************************************************************************)
EXTENDS Integers, Sequences, FiniteSets, TLC

VARIABLES
    goal,            \* argument of generate_task_plan / generate_fallback_tasks
    deadline,        \* argument: the deadline string
    pc,              \* position of the call
    model,           \* model identifier query_hf_api is running against
    attempt,         \* loop variable of query_hf_api
    calls,           \* history: every chat.completions.create call and its outcome
    response,        \* the response object the model service returned
    sent,            \* history: how the completion text was composed
    now,             \* datetime.now() as read by generate_fallback_tasks
    fallback_calls,  \* history: number of generate_fallback_tasks calls
    result,          \* value returned to the caller
    text_in,         \* extraction study: the raw text
    text_out,        \* extraction study: the text after one extraction
    text_again,      \* extraction study: the text after a second extraction
    stored           \* rows of the tasks table that save_tasks committed

vars == <<goal, deadline, pc, model, attempt, calls, response, sent, now,
          fallback_calls, result, text_in, text_out, text_again, stored>>

-----------------------------------------------------------------------------
(* Bounds of the model *)

\* longest raw text of the extraction study, in tokens
MaxTextLen == 5
\* most tasks a model-written plan document carries
MaxTasks == 2
\* latest deadline, in days after today
MaxAhead == 11
\* earliest deadline, in days before today
MaxPast == 2
\* granularity of the clock: instants per calendar day
TicksPerDay == 3

-----------------------------------------------------------------------------
(* Python values: the results of json5.loads and the returned Plan *)

Str(s) == [kind |-> "str", s |-> s]
Num(n) == [kind |-> "num", n |-> n]
Null == [kind |-> "null"]
List(items) == [kind |-> "list", items |-> items]
Dict(map) == [kind |-> "dict", map |-> map]
\* a "YYYY-MM-DD" string, by the number of its day
DateStr(day) == [kind |-> "date", day |-> day]
\* an f-string: fixed text around one interpolated value
FStr(fmt, arg) == [kind |-> "fstr", fmt |-> fmt, arg |-> arg]

EmptyMap == [k \in {} |-> Null]
\* d[k] = v on a Python dict
SetItem(map, k, v) == [x \in DOMAIN map \cup {k} |-> IF x = k THEN v ELSE map[x]]

NoPlan == [kind |-> "none"]

-----------------------------------------------------------------------------
(* Text helpers: str.strip, str.find, str.rfind, slicing *)

IsSpace(t) == t = "s"

RECURSIVE LStrip(_)
LStrip(text) ==
    IF text # <<>> /\ IsSpace(Head(text)) THEN LStrip(Tail(text)) ELSE text

RECURSIVE RStrip(_)
RStrip(text) ==
    IF text # <<>> /\ IsSpace(text[Len(text)])
    THEN RStrip(SubSeq(text, 1, Len(text) - 1))
    ELSE text

\* str.strip()
Strip(text) == RStrip(LStrip(text))

Positions(text, t) == {i \in 1..Len(text) : text[i] = t}
Min(S) == CHOOSE x \in S : \A y \in S : x <= y
Max(S) == CHOOSE x \in S : \A y \in S : y <= x

\* str.find: 0-based index of the first occurrence, -1 when there is none
Find(text, t) ==
    IF Positions(text, t) = {} THEN -1 ELSE Min(Positions(text, t)) - 1

\* str.rfind: 0-based index of the last occurrence, -1 when there is none
RFind(text, t) ==
    IF Positions(text, t) = {} THEN -1 ELSE Max(Positions(text, t)) - 1

\* text[a:b] for 0 <= a and 0 <= b
Slice(text, a, b) == SubSeq(text, a + 1, IF b > Len(text) THEN Len(text) ELSE b)

-----------------------------------------------------------------------------
(* Extraction: generate_task_plan, lines 116-123 *)

\* re.sub(r"^```(json)?|```$", "", text): the fence that opens the text goes,
\* with the json tag when it follows at once; then the fence that ends what is
\* left goes.  A fence anywhere else stays.
ReSubFence(text) ==
    LET opened == IF text # <<>> /\ Head(text) = "fence"
                  THEN IF Len(text) >= 2 /\ text[2] = "json" THEN 2 ELSE 1
                  ELSE 0
        rest == SubSeq(text, opened + 1, Len(text))
    IN  IF rest # <<>> /\ rest[Len(rest)] = "fence"
        THEN SubSeq(rest, 1, Len(rest) - 1)
        ELSE rest

\* BraceSlice with the slice left out: the text goes to the parser as it is
BraceSliceSkipped(text) == text

\* BraceSlice with end_idx = rfind, the + 1 forgotten
BraceSliceDropsClose(text) ==
    LET start_idx == Find(text, "{")
        end_idx == RFind(text, "}")
    IN  IF start_idx # -1 /\ end_idx # -1
        THEN Slice(text, start_idx, end_idx)
        ELSE text

\* the guard of line 122, on start_idx and end_idx = rfind + 1
SliceGuard(start_idx, end_idx) == start_idx # -1 /\ end_idx # -1

\* lines 120-123
BraceSlice(text) ==
    LET start_idx == Find(text, "{")
        end_idx == RFind(text, "}") + 1
    IN  IF SliceGuard(start_idx, end_idx)
        THEN Slice(text, start_idx, end_idx)
        ELSE text

\* lines 117-123, on the stripped content
Extract(text) == BraceSlice(Strip(ReSubFence(text)))

-----------------------------------------------------------------------------
(* json5.loads, line 127 *)

KeyOf ==
    ("tasks:" :> "tasks") @@ ("critical_path:" :> "critical_path") @@
    ("estimated_total_time:" :> "estimated_total_time") @@
    ("risk_factors:" :> "risk_factors") @@
    ("recommendations:" :> "recommendations") @@
    ("name:" :> "name") @@ ("priority:" :> "priority")

KeyTokens == DOMAIN KeyOf

ScalarOf ==
    ("'A'" :> Str("A")) @@ ("'B'" :> Str("B")) @@ ("'C'" :> Str("C")) @@
    ("'R'" :> Str("R")) @@ ("'none'" :> Str("none")) @@
    ("'tasks'" :> Str("tasks")) @@ ("'2 weeks'" :> Str("2 weeks")) @@
    ("'high'" :> Str("high")) @@ ("'low'" :> Str("low")) @@
    ("'urgent'" :> Str("urgent")) @@
    ("42" :> Num(42)) @@ ("null" :> Null)

ScalarTokens == DOMAIN ScalarOf

ParseFail == [ok |-> FALSE, val |-> Null, rest |-> <<>>]

RECURSIVE ParseValue(_)
RECURSIVE ParseMembers(_, _)
RECURSIVE ParseElems(_, _)

\* a value at the head of toks: [ok, val, rest]
ParseValue(toks) ==
    IF toks = <<>> THEN ParseFail
    ELSE IF Head(toks) \in ScalarTokens
         THEN [ok |-> TRUE, val |-> ScalarOf[Head(toks)], rest |-> Tail(toks)]
    ELSE IF Head(toks) = "{" THEN ParseMembers(Tail(toks), EmptyMap)
    ELSE IF Head(toks) = "[" THEN ParseElems(Tail(toks), <<>>)
    ELSE ParseFail

\* the members of an object after its "{"; a repeated key keeps the last value
ParseMembers(toks, map) ==
    IF toks = <<>> THEN ParseFail
    ELSE IF Head(toks) = "}"
         THEN [ok |-> TRUE, val |-> Dict(map), rest |-> Tail(toks)]
    ELSE IF Head(toks) \in KeyTokens
         THEN LET r == ParseValue(Tail(toks))
              IN  IF r.ok
                  THEN ParseMembers(r.rest, SetItem(map, KeyOf[Head(toks)], r.val))
                  ELSE ParseFail
    ELSE ParseFail

\* the elements of an array after its "["
ParseElems(toks, items) ==
    IF toks = <<>> THEN ParseFail
    ELSE IF Head(toks) = "]"
         THEN [ok |-> TRUE, val |-> List(items), rest |-> Tail(toks)]
    ELSE LET r == ParseValue(toks)
         IN  IF r.ok THEN ParseElems(r.rest, Append(items, r.val)) ELSE ParseFail

NotSpace(t) == ~IsSpace(t)

\* json5.loads(text): [ok, val]; ok = FALSE is the exception. The whole text
\* must be one value; whitespace between lexemes is skipped.
Json5Loads(text) ==
    LET r == ParseValue(SelectSeq(text, NotSpace))
    IN  IF r.ok /\ r.rest = <<>>
        THEN [ok |-> TRUE, val |-> r.val]
        ELSE [ok |-> FALSE, val |-> Null]

-----------------------------------------------------------------------------
(* Dates and the clock *)

\* the deadline strings: parseable dates around today (day 0), and one
\* string that is no date
Days == (0 - MaxPast)..MaxAhead
NotADate == Str("soon")
Deadlines == {DateStr(d) : d \in Days} \cup {NotADate}
\* the deadlines a planning call is studied with: the earliest and the
\* latest date, today, and the string that is no date
PlanDeadlines ==
    {DateStr(0 - MaxPast), DateStr(0), DateStr(MaxAhead), NotADate}

\* the instants datetime.now() can return today
Instants == 0..(TicksPerDay - 1)

\* datetime.strptime(s, "%Y-%m-%d"): midnight of the day; ok = FALSE raises
StrPTime(s) ==
    IF s.kind = "date"
    THEN [ok |-> TRUE, ticks |-> s.day * TicksPerDay]
    ELSE [ok |-> FALSE, ticks |-> 0]

\* dt.strftime("%Y-%m-%d"): the day of the instant, its time of day dropped
StrFTime(ticks) == DateStr(ticks \div TicksPerDay)

\* DeltaDays taken between the two calendar dates, the time of day dropped
DeltaDaysByDate(a, b) == (a \div TicksPerDay) - (b \div TicksPerDay)

\* (a - b).days: whole days, rounded down
DeltaDays(a, b) == (a - b) \div TicksPerDay

\* dt + timedelta(days=n)
PlusDays(ticks, n) == ticks + n * TicksPerDay

-----------------------------------------------------------------------------
(* generate_fallback_tasks, lines 150-191 *)

\* line 155
TotalDays(deadline_date, start_date) ==
    LET d == DeltaDays(deadline_date, start_date) IN IF d > 5 THEN d ELSE 5

\* line 156
TaskDuration(total_days) ==
    LET u == total_days \div 5 IN IF u > 1 THEN u ELSE 1

\* PlaceholderTasks that dates the placeholder with empty date strings
PlaceholderTasksDated ==
    List(<< Dict([name |-> Str("Project Planning"),
                  description |-> Str("Basic fallback"),
                  duration |-> Str("2 days"),
                  start_date |-> Str(""),
                  end_date |-> Str("")]) >>)

\* line 191
PlaceholderTasks ==
    List(<< Dict([name |-> Str("Project Planning"),
                  description |-> Str("Basic fallback"),
                  duration |-> Str("2 days")]) >>)

\* lines 158-189
ThreeTasks(g, deadline_date, start_date, task_duration) ==
    List(<<
      Dict([name |-> Str("Research & Planning"),
            description |-> FStr("Research and create a detailed plan for: {}", g),
            duration |-> FStr("{} days", task_duration),
            start_date |-> StrFTime(start_date),
            end_date |-> StrFTime(PlusDays(start_date, task_duration)),
            dependencies |-> List(<<>>),
            priority |-> Str("high"),
            category |-> Str("Planning")]),
      Dict([name |-> Str("Implementation"),
            description |-> Str("Develop and integrate the main components."),
            duration |-> FStr("{} days", task_duration * 2),
            start_date |-> StrFTime(PlusDays(start_date, task_duration)),
            end_date |-> StrFTime(PlusDays(start_date, task_duration * 3)),
            dependencies |-> List(<<Str("Research & Planning")>>),
            priority |-> Str("high"),
            category |-> Str("Development")]),
      Dict([name |-> Str("Testing & Review"),
            description |-> Str("Test features, fix bugs, and finalize project."),
            duration |-> FStr("{} days", task_duration),
            start_date |-> StrFTime(PlusDays(start_date, task_duration * 3)),
            end_date |-> StrFTime(deadline_date),
            dependencies |-> List(<<Str("Implementation")>>),
            priority |-> Str("medium"),
            category |-> Str("Testing")])
    >>)

\* generate_fallback_tasks(goal, deadline), with clock the instant
\* datetime.now() returns
generate_fallback_tasks(g, d, clock) ==
    LET deadline_date == StrPTime(d)
        total_days == TotalDays(deadline_date.ticks, clock)
        task_duration == TaskDuration(total_days)
    IN  IF deadline_date.ok
        THEN ThreeTasks(g, deadline_date.ticks, clock, task_duration)
        ELSE PlaceholderTasks

-----------------------------------------------------------------------------
(* The completion texts the model service can return *)

Goals == {"launch a product", "write a paper"}

TaskNameTokens == <<"'A'", "'B'", "'C'">>
\* the priority member of the i-th task: absent, unrecognised, recognised
TaskPriorityMembers ==
    << <<>>, <<"priority:", "'urgent'">>, <<"priority:", "'high'">> >>

\* the text of the i-th task object
TaskDoc(i) ==
    <<"{", "name:", TaskNameTokens[i]>> \o TaskPriorityMembers[i] \o <<"}">>

RECURSIVE TaskDocs(_)
TaskDocs(n) == IF n = 0 THEN <<>> ELSE TaskDocs(n - 1) \o TaskDoc(n)

\* a "tasks" member whose value is a sequence of 1..MaxTasks tasks
FullTasksMembers ==
    {<<"tasks:", "[">> \o TaskDocs(n) \o <<"]">> : n \in 1..MaxTasks}
\* a "tasks" member whose value is the empty sequence
EmptyTasksMember == <<"tasks:", "[", "]">>
\* no "tasks" member, or one whose value is no sequence
NoTasksMembers == {<<>>, <<"tasks:", "'none'">>}

\* the other top-level members a document carries
OtherMembers ==
    { <<>>,
      <<"critical_path:", "[", "'A'", "]", "recommendations:", "[", "'R'", "]">>,
      <<"critical_path:", "[", "'A'", "'B'", "]",
        "estimated_total_time:", "'2 weeks'",
        "risk_factors:", "[", "'R'", "]",
        "recommendations:", "[", "'R'", "'R'", "]">> }

ObjectDoc(tasks, others) == <<"{">> \o tasks \o others \o <<"}">>

\* well-formed plan documents: an object with a non-empty task sequence
PlanDocs == {ObjectDoc(t, o) : t \in FullTasksMembers, o \in OtherMembers}
\* objects whose task sequence is empty
EmptyPlanDocs == {ObjectDoc(EmptyTasksMember, o) : o \in OtherMembers}
\* objects with no task sequence
TasklessDocs == {ObjectDoc(t, o) : t \in NoTasksMembers, o \in OtherMembers}
\* JSON5 values that are no object
ValueDocs ==
    { <<"42">>, <<"null">>, <<"'tasks'">>, <<"[", "42", "]">> }
\* text with no JSON in it: prose, or nothing
ProseDocs == { <<>>, <<"w">>, <<"w", "s", "w">> }
\* text no parser accepts although it holds JSON lexemes
BrokenDocs ==
    { <<"{", "tasks:", "[">>, <<"{", "w", "}">>, <<"tasks:", "[", "]", "}">> }

Docs == PlanDocs \cup EmptyPlanDocs \cup TasklessDocs \cup ValueDocs
            \cup ProseDocs \cup BrokenDocs

\* what the model writes before and after the document
Leads == { <<>>, <<"w", "s">>, <<"w", "{", "w", "}", "w", "s">> }
Trails == { <<>>, <<"s", "w">>, <<"s", "w", "}">> }
Fences == {"none", "plain", "json"}

FenceOpen(f) ==
    IF f = "plain" THEN <<"fence", "s">>
    ELSE IF f = "json" THEN <<"fence", "json", "s">>
    ELSE <<>>

FenceClose(f) == IF f = "none" THEN <<>> ELSE <<"s", "fence">>

Compose(c) == c.lead \o FenceOpen(c.fence) \o c.doc \o FenceClose(c.fence) \o c.trail

Compositions == [lead : Leads, fence : Fences, doc : Docs, trail : Trails]

NoComposition == [lead |-> <<>>, fence |-> "none", doc |-> <<>>, trail |-> <<>>]

\* a response object: one with no choices, one whose message content is
\* None, or one with a content text
NoResponse == [kind |-> "unset", content |-> <<>>]
NoChoices == [kind |-> "nochoices", content |-> <<>>]
NoneContent == [kind |-> "none", content |-> <<>>]
TextResponse(text) == [kind |-> "text", content |-> text]

-----------------------------------------------------------------------------
(* generate_task_plan, lines 109-145 *)

\* FallbackPlan that carries the model text's words as a second risk factor
FallbackPlanEcho(tasks) ==
    Dict([tasks |-> tasks,
          critical_path |-> List(<<>>),
          estimated_total_time |-> Str("Unknown"),
          risk_factors |-> List(<<Str("Invalid LLM response"), Str("w")>>),
          recommendations |-> List(<<Str("Please retry or verify input.")>>)])

\* lines 132-138
FallbackPlan(tasks) ==
    Dict([tasks |-> tasks,
          critical_path |-> List(<<>>),
          estimated_total_time |-> Str("Unknown"),
          risk_factors |-> List(<<Str("Invalid LLM response")>>),
          recommendations |-> List(<<Str("Please retry or verify input.")>>)])

\* line 141, for a dict
LacksTasks(parsed) ==
    \/ "tasks" \notin DOMAIN parsed.map
    \/ parsed.map["tasks"].kind # "list"

\* Validated that returns the fallback tasks alone, the parsed fields dropped
ValidatedDropsFields(parsed, tasks) ==
    IF LacksTasks(parsed) THEN Dict([tasks |-> tasks]) ELSE parsed

\* lines 141-145, for a dict
Validated(parsed, tasks) ==
    IF LacksTasks(parsed)
    THEN Dict(SetItem(parsed.map, "tasks", tasks))
    ELSE parsed

Raises == [raised |-> TRUE, value |-> NoPlan, fallback |-> 0]
Returns(v, n) == [raised |-> FALSE, value |-> v, fallback |-> n]

\* lines 109-145: what the call does with the response. A content of None
\* has no strip() (line 114); a parsed value that is no dict supports neither
\* the membership test nor the item assignment of lines 141-143.
Normalized(g, d, resp, clock) ==
    IF resp.kind = "none" THEN Raises
    ELSE LET generated_text == Extract(Strip(resp.content))
             parsed == Json5Loads(generated_text)
         IN  IF ~parsed.ok
             THEN Returns(FallbackPlan(generate_fallback_tasks(g, d, clock)), 1)
             ELSE IF parsed.val.kind # "dict" THEN Raises
             ELSE Returns(Validated(parsed.val, generate_fallback_tasks(g, d, clock)),
                          IF LacksTasks(parsed.val) THEN 1 ELSE 0)

-----------------------------------------------------------------------------
(* query_hf_api, lines 72-89, and the model fallback of lines 101-107 *)

primary_model == "openai/gpt-oss-120b"
backup_model == "meta-llama/Llama-3.1-8B-Instruct"
max_retries == 3

\* RetriesLeft with the bound off by one: a fourth attempt
RetriesLeftOffByOne(n) == n < max_retries

\* line 86: another attempt follows a failed one
RetriesLeft(n) == n < max_retries - 1

\* QueryFails that answers the backup model's last failure with the fallback
\* plan instead of letting it leave generate_task_plan
QueryFailsThenFallback ==
    /\ pc = "query"
    /\ calls' = Append(calls, [model |-> model, ok |-> FALSE])
    /\ IF attempt < max_retries - 1
       THEN /\ attempt' = attempt + 1
            /\ UNCHANGED <<pc, model, result, fallback_calls>>
       ELSE IF model = primary_model
       THEN /\ model' = backup_model
            /\ attempt' = 0
            /\ UNCHANGED <<pc, result, fallback_calls>>
       ELSE /\ pc' = "returned"
            /\ result' = FallbackPlan(generate_fallback_tasks(goal, deadline, 0))
            /\ fallback_calls' = fallback_calls + 1
            /\ UNCHANGED <<model, attempt>>
    /\ UNCHANGED <<stored, goal, deadline, response, sent, now,
                   text_in, text_out, text_again>>

\* chat.completions.create raises.  Within the budget the loop sleeps and
\* tries again; the last failure raises out of query_hf_api: the primary
\* model's is caught at line 104 and the backup model is queried, the backup
\* model's leaves generate_task_plan.
QueryFails ==
    /\ pc = "query"
    /\ calls' = Append(calls, [model |-> model, ok |-> FALSE])
    /\ IF RetriesLeft(attempt)
       THEN /\ attempt' = attempt + 1
            /\ UNCHANGED <<pc, model, result, fallback_calls>>
       ELSE IF model = primary_model
       THEN /\ model' = backup_model
            /\ attempt' = 0
            /\ UNCHANGED <<pc, result, fallback_calls>>
       ELSE /\ pc' = "raised"
            /\ UNCHANGED <<model, attempt, result, fallback_calls>>
    /\ UNCHANGED <<stored, goal, deadline, response, sent, now,
                   text_in, text_out, text_again>>

\* chat.completions.create returns a response (line 83)
QueryReturns ==
    /\ pc = "query"
    /\ calls' = Append(calls, [model |-> model, ok |-> TRUE])
    /\ pc' = "normalize"
    /\ \/ \E c \in Compositions :
            /\ response' = TextResponse(Compose(c))
            /\ sent' = c
       \/ /\ response' \in {NoChoices, NoneContent}
          /\ sent' = NoComposition
    /\ UNCHANGED <<stored, goal, deadline, model, attempt, now, fallback_calls, result,
                   text_in, text_out, text_again>>

-----------------------------------------------------------------------------
(* generate_task_plan, lines 109-145: the step *)

Normalize ==
    /\ pc = "normalize"
    /\ \E clock \in Instants :
         LET out == Normalized(goal, deadline, response, clock)
         IN  /\ pc' = IF out.raised THEN "raised" ELSE "returned"
             /\ result' = out.value
             /\ fallback_calls' = fallback_calls + out.fallback
             /\ now' = IF out.fallback > 0 /\ StrPTime(deadline).ok
                       THEN clock ELSE now
    /\ UNCHANGED <<stored, goal, deadline, model, attempt, calls, response, sent,
                   text_in, text_out, text_again>>

-----------------------------------------------------------------------------
(* TaskDatabase.save_tasks, src/database.py lines 65-89, as the form handler *)
(* calls it on result['tasks'] (src/app.py lines 128-129)                   *)

\* task.get(key, default) on a dict
Get(task, key, default) ==
    IF key \in DOMAIN task.map THEN task.map[key] ELSE default

\* json.dumps(v): the JSON text of the value
JsonDumps(v) == [kind |-> "json", of |-> v]

\* the values sqlite3 binds to a "?": text, numbers and None
Bindable(v) == v.kind \in {"str", "date", "fstr", "json", "num", "null"}

\* lines 77-85: the parameters of one INSERT, in the first project's table
Row(task) ==
    [project_id |-> Num(1),
     task_name |-> task.map["name"],
     description |-> Get(task, "description", Str("")),
     estimated_duration |-> Get(task, "duration", Str("")),
     start_date |-> Get(task, "start_date", Str("")),
     end_date |-> Get(task, "end_date", Str("")),
     dependencies |-> JsonDumps(Get(task, "dependencies", List(<<>>))),
     priority |-> Get(task, "priority", Str("medium")),
     status |-> Str("pending")]

\* the INSERT of a task goes through: task['name'] exists and every
\* parameter can be bound
Insertable(task) ==
    /\ task.kind = "dict"
    /\ "name" \in DOMAIN task.map
    /\ \A f \in DOMAIN Row(task) : Bindable(Row(task)[f])

\* save_tasks(project_id, tasks): the rows the commit of line 88 stores.
\* An INSERT that raises leaves the function before the commit, and no row
\* of the call is stored.
save_tasks(tasks) ==
    IF \A i \in 1..Len(tasks) : Insertable(tasks[i])
    THEN [raised |-> FALSE, rows |-> [i \in 1..Len(tasks) |-> Row(tasks[i])]]
    ELSE [raised |-> TRUE, rows |-> <<>>]

\* src/app.py line 129, after generate_task_plan returned
SaveTasks ==
    /\ pc = "returned"
    /\ LET out == save_tasks(result.map["tasks"].items)
       IN  /\ pc' = IF out.raised THEN "save_raised" ELSE "saved"
           /\ stored' = out.rows
    /\ UNCHANGED <<goal, deadline, model, attempt, calls, response, sent, now,
                   fallback_calls, result, text_in, text_out, text_again>>

-----------------------------------------------------------------------------
(* The call of generate_task_plan *)

Init ==
    /\ goal \in Goals
    /\ deadline \in PlanDeadlines
    /\ pc = "query"
    /\ model = primary_model
    /\ attempt = 0
    /\ calls = <<>>
    /\ response = NoResponse
    /\ sent = NoComposition
    /\ now = -1
    /\ fallback_calls = 0
    /\ result = NoPlan
    /\ stored = <<>>
    /\ text_in = <<>>
    /\ text_out = <<>>
    /\ text_again = <<>>

Next == QueryFails \/ QueryReturns \/ Normalize \/ SaveTasks

Spec == Init /\ [][Next]_vars

-----------------------------------------------------------------------------
(* The extraction step on its own: lines 117-123 applied to a text, then to *)
(* its own output                                                           *)

TextTokens == {"fence", "json", "{", "}", "w", "s"}
Texts == UNION {[1..n -> TextTokens] : n \in 0..MaxTextLen}
\* line 114 strips the content before the extraction step sees it
StrippedTexts == {t \in Texts : Strip(t) = t}

ExtractInit ==
    /\ text_in \in StrippedTexts
    /\ text_out = <<>>
    /\ text_again = <<>>
    /\ pc = "extract"
    /\ goal = "launch a product"
    /\ deadline = NotADate
    /\ model = primary_model
    /\ attempt = 0
    /\ calls = <<>>
    /\ response = NoResponse
    /\ sent = NoComposition
    /\ now = -1
    /\ fallback_calls = 0
    /\ result = NoPlan
    /\ stored = <<>>

ExtractOnce ==
    /\ pc = "extract"
    /\ text_out' = Extract(text_in)
    /\ pc' = "extracted"
    /\ UNCHANGED <<stored, goal, deadline, model, attempt, calls, response, sent, now,
                   fallback_calls, result, text_in, text_again>>

ExtractAgain ==
    /\ pc = "extracted"
    /\ text_again' = Extract(text_out)
    /\ pc' = "reextracted"
    /\ UNCHANGED <<stored, goal, deadline, model, attempt, calls, response, sent, now,
                   fallback_calls, result, text_in, text_out>>

ExtractNext == ExtractOnce \/ ExtractAgain

SpecExtract == ExtractInit /\ [][ExtractNext]_vars

-----------------------------------------------------------------------------
(* generate_fallback_tasks on its own *)

FallbackInit ==
    /\ goal \in Goals
    /\ deadline \in Deadlines
    /\ pc = "fallback"
    /\ model = primary_model
    /\ attempt = 0
    /\ calls = <<>>
    /\ response = NoResponse
    /\ sent = NoComposition
    /\ now = -1
    /\ fallback_calls = 0
    /\ result = NoPlan
    /\ stored = <<>>
    /\ text_in = <<>>
    /\ text_out = <<>>
    /\ text_again = <<>>

CallFallback ==
    /\ pc = "fallback"
    /\ \E clock \in Instants :
         /\ result' = generate_fallback_tasks(goal, deadline, clock)
         /\ now' = IF StrPTime(deadline).ok THEN clock ELSE now
    /\ fallback_calls' = fallback_calls + 1
    /\ pc' = "fallback_done"
    /\ UNCHANGED <<stored, goal, deadline, model, attempt, calls, response, sent,
                   text_in, text_out, text_again>>

FallbackNext == CallFallback

SpecFallback == FallbackInit /\ [][FallbackNext]_vars

-----------------------------------------------------------------------------
(* Properties *)

Returned == pc = "returned"
\* the call is over: it returned or it raised
Ended == pc \in {"returned", "raised"}

IsPlanWithTasks(v) ==
    /\ v.kind = "dict"
    /\ "tasks" \in DOMAIN v.map
    /\ v.map["tasks"].kind = "list"

FailedCalls(m) == {i \in 1..Len(calls) : calls[i].model = m /\ ~calls[i].ok}
SomeCallReturned == \E i \in 1..Len(calls) : calls[i].ok

\* what json5.loads makes of the response's text
ParsedResponse == Json5Loads(Extract(Strip(response.content)))

BraceFree(text) == \A i \in 1..Len(text) : text[i] \notin {"{", "}"}

FallbackTaskNames == <<"Research & Planning", "Implementation", "Testing & Review">>

\* C1: whenever generate_task_plan returns a Plan for a future deadline, the
\* Plan's tasks field is a non-empty sequence, whatever text the model
\* returned, a parsed tasks sequence included.
C1_TasksNonEmpty ==
    (Returned /\ deadline.kind = "date" /\ deadline.day > 0) =>
        /\ IsPlanWithTasks(result)
        /\ Len(result.map["tasks"].items) > 0

\* C2: once the model service has returned a response, generate_task_plan
\* never raises: whatever the completion text, the call returns a Plan.
C2_NeverRaisesAfterResponse ==
    SomeCallReturned => pc # "raised"

\* C3: the model invocations form a prefix of primary, primary, primary,
\* backup, backup, backup; every invocation that is followed by another one
\* failed, so none follows a successful one.
C3_InvocationOrder ==
    LET order == <<primary_model, primary_model, primary_model,
                   backup_model, backup_model, backup_model>>
    IN  /\ Len(calls) <= 6
        /\ \A i \in 1..Len(calls) : calls[i].model = order[i]
        /\ \A i \in 1..(Len(calls) - 1) : ~calls[i].ok

\* C3 witness: the backup model's third attempt succeeds after five failures
C3_Witness ==
    /\ Len(calls) = 6
    /\ calls[6].ok
    /\ calls[3].model = primary_model /\ calls[4].model = backup_model
    /\ Returned

\* C4: when all three attempts on the primary and all three on the backup
\* model fail, the call ends by raising: no Plan is returned and the fallback
\* generator is not invoked; the fallback generator is invoked only when some
\* model invocation returned a response.
C4_ExhaustionPropagates ==
    /\ (Cardinality(FailedCalls(primary_model)) = 3
            /\ Cardinality(FailedCalls(backup_model)) = 3) =>
          (pc = "raised" /\ result = NoPlan /\ fallback_calls = 0)
    /\ fallback_calls > 0 => SomeCallReturned

\* C4 witness: six failed invocations, and the call raised
C4_Witness ==
    /\ Len(calls) = 6
    /\ \A i \in 1..6 : ~calls[i].ok
    /\ pc = "raised"

\* a field that tells the caller the tasks are the fallback's: the "error"
\* key the caller reads, or the risk factor of the fallback plan
SignalsFallback(plan) ==
    \/ "error" \in DOMAIN plan.map
    \/ /\ "risk_factors" \in DOMAIN plan.map
       /\ plan.map["risk_factors"].kind = "list"
       /\ \E i \in 1..Len(plan.map["risk_factors"].items) :
            plan.map["risk_factors"].items[i] = Str("Invalid LLM response")

\* C5: every returned Plan whose tasks came from the fallback generator
\* carries a signal of the substitution.
C5_FallbackIsSignalled ==
    (Returned /\ fallback_calls > 0) => SignalsFallback(result)

\* C6: when the completion text parses to an object with no tasks key, or
\* whose tasks value is no sequence, the returned tasks are the fallback
\* generator's output for (goal, deadline) and every other top-level field
\* of the parsed object is returned as parsed, none added, none removed.
C6_OtherFieldsKept ==
    (Ended /\ response.kind = "text" /\ ParsedResponse.ok
        /\ ParsedResponse.val.kind = "dict" /\ LacksTasks(ParsedResponse.val)) =>
        LET parsed == ParsedResponse.val.map
        IN  /\ Returned
            /\ result.kind = "dict"
            /\ DOMAIN result.map = DOMAIN parsed \cup {"tasks"}
            /\ result.map["tasks"] = generate_fallback_tasks(goal, deadline, now)
            /\ \A k \in DOMAIN parsed \ {"tasks"} : result.map[k] = parsed[k]

\* C6 witness: a fenced object with a tasks string and four other fields
\* came back with the three fallback tasks and its critical path
C6_Witness ==
    /\ Returned
    /\ sent.doc \in TasklessDocs
    /\ sent.fence = "json"
    /\ fallback_calls = 1
    /\ DOMAIN Json5Loads(sent.doc).val.map =
            {"tasks", "critical_path", "estimated_total_time",
             "risk_factors", "recommendations"}
    /\ Json5Loads(sent.doc).val.map["tasks"] = Str("none")
    /\ DOMAIN result.map = DOMAIN Json5Loads(sent.doc).val.map
    /\ Len(result.map["tasks"].items) = 3
    /\ result.map["critical_path"] = List(<<Str("A"), Str("B")>>)

\* text with no JSON in it: prose, whitespace and fence markers only
NoJsonAtAll(resp) ==
    /\ resp.kind \in {"text", "nochoices"}
    /\ \A i \in 1..Len(resp.content) :
         resp.content[i] \in {"w", "s", "fence", "json"}

\* C7: when the model's text holds no JSON at all and the deadline is a
\* date, the call returns a Plan with exactly the three fallback tasks, an
\* empty critical_path, estimated_total_time "Unknown", one risk factor, one
\* recommendation and nothing else.
C7_ProseGivesFallbackPlan ==
    (Ended /\ NoJsonAtAll(response) /\ deadline.kind = "date") =>
        /\ Returned
        /\ result.kind = "dict"
        /\ DOMAIN result.map = {"tasks", "critical_path", "estimated_total_time",
                                "risk_factors", "recommendations"}
        /\ result.map["tasks"].kind = "list"
        /\ Len(result.map["tasks"].items) = 3
        /\ \A i \in 1..3 :
             result.map["tasks"].items[i].map["name"] = Str(FallbackTaskNames[i])
        /\ result.map["critical_path"] = List(<<>>)
        /\ result.map["estimated_total_time"] = Str("Unknown")
        /\ result.map["risk_factors"].kind = "list"
        /\ Len(result.map["risk_factors"].items) = 1
        /\ result.map["recommendations"].kind = "list"
        /\ Len(result.map["recommendations"].items) = 1
        /\ fallback_calls = 1

\* C7 witness: fenced prose came back as the fallback plan
C7_Witness ==
    /\ Returned
    /\ NoJsonAtAll(response)
    /\ sent.doc = <<"w", "s", "w">>
    /\ sent.fence = "plain"
    /\ deadline.kind = "date"
    /\ Len(result.map["tasks"].items) = 3
    /\ result.map["estimated_total_time"] = Str("Unknown")

\* the Plan that normalising the document alone gives
PlanOfDocAlone(doc) == Normalized(goal, deadline, TextResponse(doc), 0).value

\* C8 as stated: a well-formed plan document in a code fence, with or
\* without the json tag, with any leading sentence and trailing commentary
\* around it, normalises to the same Plan as the document alone.
C8_WrappedGivesSamePlan ==
    (Ended /\ sent.doc \in PlanDocs /\ sent.fence # "none") =>
        (Returned /\ result = PlanOfDocAlone(sent.doc))

\* C8 amended: the same, for a leading sentence and trailing commentary that
\* hold no brace.
C8_WrappedBraceFreeGivesSamePlan ==
    (Ended /\ sent.doc \in PlanDocs /\ sent.fence # "none"
        /\ BraceFree(sent.lead) /\ BraceFree(sent.trail)) =>
        (Returned /\ result = PlanOfDocAlone(sent.doc))

\* C8 witness: a document fenced with the json tag, a sentence before it and
\* commentary after it, came back as the document's own Plan
C8_Witness ==
    /\ Returned
    /\ sent.doc \in PlanDocs
    /\ sent.fence = "json"
    /\ sent.lead = <<"w", "s">>
    /\ sent.trail = <<"s", "w">>
    /\ response.content # sent.doc
    /\ result = Json5Loads(sent.doc).val
    /\ Len(result.map["tasks"].items) = MaxTasks
    /\ fallback_calls = 0

\* clean JSON text: it starts with "{", ends with "}" and holds no fence
CleanJson(text) ==
    /\ text # <<>>
    /\ Head(text) = "{"
    /\ text[Len(text)] = "}"
    /\ \A i \in 1..Len(text) : text[i] # "fence"

FenceAtAnEnd(text) ==
    text # <<>> /\ (Head(text) = "fence" \/ text[Len(text)] = "fence")

\* C9 as stated: extraction returns clean JSON text unchanged, and a second
\* extraction of the output of any input changes nothing.
C9_ExtractionIdempotent ==
    /\ (pc # "extract" /\ CleanJson(text_in)) => text_out = text_in
    /\ pc = "reextracted" => text_again = text_out

\* C9 amended: extraction returns clean JSON text unchanged, and a second
\* extraction changes nothing of the output of an input that holds a "{", or
\* whose first output neither starts nor ends with a fence marker.
C9_ExtractionIdempotentOnceFencesAreGone ==
    /\ (pc # "extract" /\ CleanJson(text_in)) => text_out = text_in
    /\ (pc = "reextracted"
            /\ (Positions(text_in, "{") # {} \/ ~FenceAtAnEnd(text_out))) =>
          text_again = text_out

\* C9 witness: a fenced object between prose was cut to the object, and the
\* second extraction left it alone
C9_Witness ==
    /\ pc = "reextracted"
    /\ Len(text_in) = MaxTextLen
    /\ Head(text_in) = "fence"
    /\ text_out = <<"{", "w", "}">>
    /\ text_again = text_out

\* the whole days from the instant clock to midnight of day d, rounded down
WholeDays(d, clock) ==
    CHOOSE k \in (0 - MaxPast - 1)..MaxAhead :
        /\ k * TicksPerDay <= d * TicksPerDay - clock
        /\ d * TicksPerDay - clock < (k + 1) * TicksPerDay

\* C10: for every parseable deadline, one of today or of the past included,
\* generate_fallback_tasks returns the three tasks "Research & Planning",
\* "Implementation", "Testing & Review" in this order, with total_days =
\* max(5, deadline - now in days) >= 5 and unit = max(1, total_days div 5)
\* >= 1, the spans [now, now + unit], [now + unit, now + 3 unit] and
\* [now + 3 unit, deadline], priorities high, high, medium, and each task
\* depending on the one before it by name.
C10_ThreeFallbackTasks ==
    (pc = "fallback_done" /\ deadline.kind = "date") =>
        LET today == now \div TicksPerDay
            diff == WholeDays(deadline.day, now)
            total_days == IF diff > 5 THEN diff ELSE 5
            unit == IF total_days \div 5 > 1 THEN total_days \div 5 ELSE 1
            t == result.items
            Span(i) == <<t[i].map["start_date"], t[i].map["end_date"]>>
        IN  /\ result.kind = "list"
            /\ Len(t) = 3
            /\ \A i \in 1..3 : t[i].map["name"] = Str(FallbackTaskNames[i])
            /\ total_days >= 5 /\ unit >= 1
            /\ Span(1) = <<DateStr(today), DateStr(today + unit)>>
            /\ Span(2) = <<DateStr(today + unit), DateStr(today + 3 * unit)>>
            /\ Span(3) = <<DateStr(today + 3 * unit), deadline>>
            /\ t[1].map["priority"] = Str("high")
            /\ t[2].map["priority"] = Str("high")
            /\ t[3].map["priority"] = Str("medium")
            /\ t[1].map["dependencies"] = List(<<>>)
            /\ t[2].map["dependencies"] = List(<<t[1].map["name"]>>)
            /\ t[3].map["dependencies"] = List(<<t[2].map["name"]>>)

\* C10 witness: a deadline in the past gave three tasks of one day's unit
C10_Witness ==
    /\ pc = "fallback_done"
    /\ deadline.kind = "date"
    /\ deadline.day < 0
    /\ now > 0
    /\ Len(result.items) = 3
    /\ result.items[1].map["end_date"] = DateStr(1)
    /\ result.items[3].map["end_date"] = deadline

\* the fallback generator is called: the text does not parse, or parses to
\* an object without a tasks sequence
FallbackNeeded ==
    /\ response.kind \in {"text", "nochoices"}
    /\ \/ ~ParsedResponse.ok
       \/ /\ ParsedResponse.val.kind = "dict"
          /\ LacksTasks(ParsedResponse.val)

\* C11: generate_fallback_tasks never raises: for a deadline that is no
\* YYYY-MM-DD date it returns exactly one placeholder task, "Project
\* Planning", with no start_date and no end_date, so that a call whose text
\* needs the fallback still returns a Plan.
C11_PlaceholderForUnparseableDeadline ==
    (Ended /\ deadline.kind # "date" /\ FallbackNeeded) =>
        /\ Returned
        /\ fallback_calls = 1
        /\ IsPlanWithTasks(result)
        /\ Len(result.map["tasks"].items) = 1
        /\ result.map["tasks"].items[1].kind = "dict"
        /\ result.map["tasks"].items[1].map["name"] = Str("Project Planning")
        /\ "start_date" \notin DOMAIN result.map["tasks"].items[1].map
        /\ "end_date" \notin DOMAIN result.map["tasks"].items[1].map

\* C11 witness: prose came back for a deadline that is no date, and the
\* returned fallback Plan holds the one placeholder task
C11_Witness ==
    /\ Returned
    /\ deadline = NotADate
    /\ response.kind = "text"
    /\ sent.doc = <<"w">>
    /\ ~ParsedResponse.ok
    /\ now = -1
    /\ result.map["estimated_total_time"] = Str("Unknown")
    /\ Len(result.map["tasks"].items) = 1
    /\ DOMAIN result.map["tasks"].items[1].map = {"name", "description", "duration"}

PriorityEnum == {Str("high"), Str("medium"), Str("low")}

\* C12: every task of a Plan that generate_task_plan returned and save_tasks
\* stored has a priority of high, medium or low: a priority that is absent
\* or outside the enum is stored as "medium".
C12_StoredPriorityInEnum ==
    pc = "saved" =>
        \A i \in 1..Len(stored) :
            LET task == result.map["tasks"].items[i]
            IN  /\ stored[i].priority \in PriorityEnum
                /\ ("priority" \notin DOMAIN task.map
                        \/ task.map["priority"] \notin PriorityEnum) =>
                      stored[i].priority = Str("medium")

\* C13: brace slicing changes the text only when it holds both a "{" and a
\* "}": the result is then the span from the first "{" to the last "}"; a
\* text that lacks either brace goes to the parser unchanged.
C13_SliceOnlyWhenBothBraces ==
    pc # "extract" =>
        LET text == Strip(ReSubFence(text_in))
            opens == Positions(text, "{")
            closes == Positions(text, "}")
        IN  IF opens # {} /\ closes # {}
            THEN text_out = SubSeq(text, Min(opens), Max(closes))
            ELSE text_out = text

\* C14: for a date deadline of today or later, each of the three fallback
\* tasks starts no later than it ends and no earlier than the task it
\* depends on ends; "Testing & Review" does not start after the deadline.
C14_TasksOrderedInTime ==
    (pc = "fallback_done" /\ deadline.kind = "date"
        /\ deadline.day >= now \div TicksPerDay) =>
        LET t == result.items
        IN  /\ \A i \in 1..3 :
                 t[i].map["start_date"].day <= t[i].map["end_date"].day
            /\ \A i \in 2..3 :
                 t[i].map["start_date"].day >= t[i - 1].map["end_date"].day
            /\ t[3].map["start_date"].day <= deadline.day

=============================================================================
